---- MODULE Spec2Model ----
(***************************************************************************)
(* replit_audio: the client of the repl.it audio daemon (src/src/audio.rs). *)
(*                                                                         *)
(* The client appends JSON records to the command channel /tmp/audio and   *)
(* reads the status snapshot /tmp/audioStatus.json, which the daemon       *)
(* rewrites.  JSON values are modelled structurally (type tag + payload),  *)
(* errors by the format string and arguments of their message, and time by *)
(* whole seconds elapsed since Instant::now().  f64 values are restricted  *)
(* to integral ones.                                                       *)
(***************************************************************************)
EXTENDS Integers, Sequences, FiniteSets, TLC

VARIABLES
    counter,    \* CURRENT_AUDIO
    channel,    \* records in /tmp/audio, oldest first
    status,     \* the file /tmp/audioStatus.json
    nextId,     \* the daemon's next free source identity
    pc,         \* per thread: position in the running operation
    name,       \* per thread: `name` of the running build()
    cmd,        \* per thread: `serialized` of the running build()/update()
    elapsed,    \* per thread: start_time.elapsed() in seconds
    audio,      \* per thread: the Audio returned by its last successful build()
    result,     \* per thread: the last operation, its argument, what it returned
    didRead,    \* per thread: the running/last operation called parse_status()
    issued,     \* history: the names generated by build(), in order
    bound       \* history, per thread: the Name of the record its Audio is of

vars == <<counter, channel, status, nextId, pc, name, cmd, elapsed, audio,
          result, didRead, issued, bound>>

-----------------------------------------------------------------------------
(* Bounds *)

MaxCounter == 2     \* builds with a generated name
MaxChan == 2        \* records waiting in the command channel
MaxSources == 2     \* records in the Sources array of an enumerated snapshot

Threads == {1, 2}

-----------------------------------------------------------------------------
(* Program constants *)

AUDIO_UPDATE_PATH == "/tmp/audio"
AUDIO_STATUS_PATH == "/tmp/audioStatus.json"
TIME_FORMAT == "%FT%T.%fZ"
TIME_OUT == 2

-----------------------------------------------------------------------------
(* Option, Result *)

None == [some |-> FALSE]
Some(x) == [some |-> TRUE, v |-> x]

Ok(x) == [k |-> "ok", v |-> x]
Err(e) == [k |-> "err", e |-> e]
Panic == [k |-> "panic"]
Unit == "()"

\* AudioError::new(format!(template, args...))
AudioError(template, args) == [msg |-> <<template>> \o args]

-----------------------------------------------------------------------------
(* json::JsonValue *)

Null == [t |-> "null"]
JBool(b) == [t |-> "bool", v |-> b]
JNum(n) == [t |-> "num", v |-> n]
JStr(s) == [t |-> "str", v |-> s]
JArr(items) == [t |-> "arr", items |-> items]
JObj(f) == [t |-> "obj", f |-> f]

\* value[key]: Null for a missing key and for a value that is no object
Index(value, key) ==
    IF value.t = "obj" /\ key \in DOMAIN value.f THEN value.f[key] ELSE Null

\* value.members_mut(): the elements of an array, nothing for anything else
Members(value) == IF value.t = "arr" THEN value.items ELSE <<>>

AsU64(value) == IF value.t = "num" /\ value.v >= 0 THEN Some(value.v) ELSE None
AsI64(value) == IF value.t = "num" THEN Some(value.v) ELSE None
AsF64(value) == IF value.t = "num" THEN Some(value.v) ELSE None
AsBool(value) == IF value.t = "bool" THEN Some(value.v) ELSE None
AsStr(value) == IF value.t = "str" THEN Some(value.v) ELSE None

\* JsonValue == u64, JsonValue == &str
EqNum(value, n) == value.t = "num" /\ value.v = n
EqStr(value, s) == value.t = "str" /\ value.v = s

\* Option::unwrap() followed by f, inside Ok(..)
Unwrap(opt) == IF opt.some THEN Ok(opt.v) ELSE Panic

-----------------------------------------------------------------------------
(* The status snapshot file *)

Absent == [kind |-> "absent"]
Unreadable == [kind |-> "unreadable"]
NotUtf8 == [kind |-> "not_utf8"]
\* A file whose text is not JSON
MalformedText(text) == [kind |-> "malformed", text |-> text]
Malformed == MalformedText("{\"Sources\": [}")

\* The texts that are not JSON which the model knows, each with the error
\* json::parse reports for it
JsonErrors ==
    [text \in {"", "{", "now", "{\"Sources\": [}"} |->
        CASE text = "now" -> "Unexpected character: o at (1:2)"
          [] text = "{\"Sources\": [}" -> "Unexpected character: } at (1:14)"
          [] OTHER -> "Unexpected end of JSON"]
Json(doc) == [kind |-> "json", doc |-> doc]

\* fs::read_to_string(AUDIO_STATUS_PATH)
ReadToString(file) ==
    CASE file.kind = "absent" -> Err("No such file or directory (os error 2)")
      [] file.kind = "unreadable" -> Err("Permission denied (os error 13)")
      [] file.kind = "not_utf8" -> Err("stream did not contain valid UTF-8")
      [] OTHER -> Ok(file)

\* json::parse(&status_str)
JsonParse(text) ==
    IF text.kind = "json" THEN Ok(text.doc) ELSE Err(JsonErrors[text.text])

\* parse_status reporting a JSON failure with the message of a read failure
parse_status_one_message(file) ==
    LET status_str == ReadToString(file) IN
    IF status_str.k = "err"
    THEN Err(AudioError("Error in reading {}. ({})", <<AUDIO_STATUS_PATH, status_str.e>>))
    ELSE LET parsed == JsonParse(status_str.v) IN
         IF parsed.k = "ok"
         THEN Ok(parsed.v)
         ELSE Err(AudioError("Error in reading {}. ({})", <<AUDIO_STATUS_PATH, parsed.e>>))

parse_status(file) ==
    LET status_str == ReadToString(file) IN
    IF status_str.k = "err"
    THEN Err(AudioError("Error in reading {}. ({})", <<AUDIO_STATUS_PATH, status_str.e>>))
    ELSE LET parsed == JsonParse(status_str.v) IN
         IF parsed.k = "ok"
         THEN Ok(parsed.v)
         ELSE Err(AudioError("Error in parsing JSON. ({})", <<parsed.e>>))

\* Iterator::find(|s| s["ID"] == id): the index of the first match from i on,
\* 0 if there is none
RECURSIVE FindId(_, _, _)
FindId(items, id, i) ==
    IF i > Len(items) THEN 0
    ELSE IF EqNum(Index(items[i], "ID"), id) THEN i
    ELSE FindId(items, id, i + 1)

\* Iterator::find(|s| s["Name"] == name)
RECURSIVE FindName(_, _, _)
FindName(items, n, i) ==
    IF i > Len(items) THEN 0
    ELSE IF EqStr(Index(items[i], "Name"), n) THEN i
    ELSE FindName(items, n, i + 1)

\* get_status_by_id taking the first record whatever its identity
get_status_by_id_any(file, id) ==
    LET parsed == parse_status(file) IN
    IF parsed.k = "err" THEN parsed
    ELSE LET sources == Members(Index(parsed.v, "Sources"))
         IN  IF sources # <<>> THEN Ok(sources[1])
             ELSE Err(AudioError("No audio source found with id {}.", <<id>>))

get_status_by_id(file, id) ==
    LET parsed == parse_status(file) IN
    IF parsed.k = "err" THEN parsed
    ELSE LET sources == Members(Index(parsed.v, "Sources"))
             i == FindId(sources, id, 1)
         IN  IF i # 0 THEN Ok(sources[i])
             ELSE Err(AudioError("No audio source found with id {}.", <<id>>))

\* get_status_by_name taking the first record whatever its name
get_status_by_name_any(file, n) ==
    LET parsed == parse_status(file) IN
    IF parsed.k = "err" THEN parsed
    ELSE LET sources == Members(Index(parsed.v, "Sources"))
         IN  IF sources # <<>> THEN Ok(sources[1])
             ELSE Err(AudioError("No audio source found with name {}.", <<n>>))

\* get_status_by_name taking the last record with the name
get_status_by_name_last(file, n) ==
    LET parsed == parse_status(file) IN
    IF parsed.k = "err" THEN parsed
    ELSE LET sources == Members(Index(parsed.v, "Sources"))
             matches == {i \in 1..Len(sources) : EqStr(Index(sources[i], "Name"), n)}
         IN  IF matches # {}
             THEN Ok(sources[CHOOSE i \in matches : \A j \in matches : j <= i])
             ELSE Err(AudioError("No audio source found with name {}.", <<n>>))

get_status_by_name(file, n) ==
    LET parsed == parse_status(file) IN
    IF parsed.k = "err" THEN parsed
    ELSE LET sources == Members(Index(parsed.v, "Sources"))
             i == FindName(sources, n, 1)
         IN  IF i # 0 THEN Ok(sources[i])
             ELSE Err(AudioError("No audio source found with name {}.", <<n>>))

-----------------------------------------------------------------------------
(* AudioType, FileType, ToneType *)

File(file, path) == [tag |-> "File", file |-> file, path |-> path]
Tone(tone, pitch, duration) ==
    [tag |-> "Tone", tone |-> tone, pitch |-> pitch, duration |-> duration]

FileType_as_str(file) ==
    CASE file = "Wav" -> "wav"
      [] file = "Aiff" -> "aiff"
      [] file = "Mp3" -> "mp3"

\* tone as u8 for an enum whose discriminants start at 1
ToneType_as_u8_from_one(tone) ==
    CASE tone = "Sine" -> 1
      [] tone = "Triangle" -> 2
      [] tone = "Saw" -> 3
      [] tone = "Square" -> 4

\* tone as u8
ToneType_as_u8(tone) ==
    CASE tone = "Sine" -> 0
      [] tone = "Triangle" -> 1
      [] tone = "Saw" -> 2
      [] tone = "Square" -> 3

AudioType_as_str(audio_type) ==
    IF audio_type.tag = "File" THEN FileType_as_str(audio_type.file) ELSE "tone"

-----------------------------------------------------------------------------
(* AudioBuilder *)

AudioBuilder_new(audio_type) ==
    [name |-> None, audio_type |-> audio_type, volume |-> 1,
     does_loop |-> FALSE, loop_count |-> -1]

AudioBuilder_name(self, n) == [self EXCEPT !.name = Some(n)]
AudioBuilder_volume(self, volume) == [self EXCEPT !.volume = volume]
AudioBuilder_does_loop(self, does_loop) == [self EXCEPT !.does_loop = does_loop]
AudioBuilder_loop_count(self, loop_count) == [self EXCEPT !.loop_count = loop_count]

\* fetch_add whose store is lost
FetchAdd_lost(c) == c

\* CURRENT_AUDIO.fetch_add(1, Ordering::SeqCst): the new value of the counter
\* (the old one is returned); u64 wrap-around is out of reach of the bounds
FetchAdd(c) == c + 1

\* A generated name that leaves the number out
GeneratedName_constant(n) == "rust_audio_"

\* format!("rust_audio_{}", n)
GeneratedName(n) == "rust_audio_" \o ToString(n)

serialized_args(audio_type) ==
    IF audio_type.tag = "File"
    THEN JObj([Path |-> JStr(audio_type.path)])
    ELSE JObj([WaveType |-> JNum(ToneType_as_u8(audio_type.tone)),
               Pitch |-> JNum(audio_type.pitch),
               Seconds |-> JNum(audio_type.duration)])

\* `serialized` of build()
SerializedCreate(n, self) ==
    JObj([Name |-> JStr(n),
          Type |-> JStr(AudioType_as_str(self.audio_type)),
          Volume |-> JNum(self.volume),
          DoesLoop |-> JBool(self.does_loop),
          LoopCount |-> JNum(self.loop_count),
          Args |-> serialized_args(self.audio_type)])

\* `serialized` of update() with the loop flag sent as the pause flag
SerializedUpdate_mixed(self, update) ==
    JObj([ID |-> JNum(self.id),
          Volume |-> JNum(update.volume),
          Paused |-> JBool(update.does_loop),
          DoesLoop |-> JBool(update.does_loop),
          LoopCount |-> JNum(update.loop_count)])

\* `serialized` of update()
SerializedUpdate(self, update) ==
    JObj([ID |-> JNum(self.id),
          Volume |-> JNum(update.volume),
          Paused |-> JBool(update.paused),
          DoesLoop |-> JBool(update.does_loop),
          LoopCount |-> JNum(update.loop_count)])

\* One pass of the polling loop of build(): the value build() returns from it,
\* or None when the loop goes round again
PollOnce(file, n, audio_type) ==
    LET found == get_status_by_name(file, n) IN
    IF found.k = "ok"
    THEN LET id == AsU64(Index(found.v, "ID")) IN
         IF id.some
         THEN Some(Ok([id |-> id.v, audio_type |-> audio_type]))
         ELSE Some(Panic)
    ELSE None

TimedOut ==
    Err(AudioError("Timed out while waiting for {} to update.", <<AUDIO_STATUS_PATH>>))

OpenError(e) == Err(AudioError("Error in opening {}. ({})", <<AUDIO_UPDATE_PATH, e>>))
WriteError(e) == Err(AudioError("Error in writing to {}. ({})", <<AUDIO_UPDATE_PATH, e>>))

-----------------------------------------------------------------------------
(* Global status queries *)

is_running(file) ==
    LET parsed == parse_status(file) IN
    IF parsed.k = "err" THEN parsed
    ELSE Unwrap(AsBool(Index(parsed.v, "Running")))

is_disabled(file) ==
    LET parsed == parse_status(file) IN
    IF parsed.k = "err" THEN parsed
    ELSE Unwrap(AsBool(Index(parsed.v, "Disabled")))

-----------------------------------------------------------------------------
(* Audio *)

\* chrono's ParseError texts
TOO_SHORT == "premature end of input"
INVALID == "input contains invalid characters"
OUT_OF_RANGE == "input is out of range"
TOO_LONG == "trailing input"

\* The items of TIME_FORMAT: %F is %Y-%m-%d and %T is %H:%M:%S; a numeric item
\* has the greatest number of digits it takes and the values its field takes,
\* %Y may have a sign and takes any i32
TimeItems ==
    <<[num |-> TRUE, width |-> 4, signed |-> TRUE, least |-> -2147483647 - 1,
       most |-> 2147483647],
      [num |-> FALSE, lit |-> "-"],
      [num |-> TRUE, width |-> 2, signed |-> FALSE, least |-> 1, most |-> 12],
      [num |-> FALSE, lit |-> "-"],
      [num |-> TRUE, width |-> 2, signed |-> FALSE, least |-> 1, most |-> 31],
      [num |-> FALSE, lit |-> "T"],
      [num |-> TRUE, width |-> 2, signed |-> FALSE, least |-> 0, most |-> 23],
      [num |-> FALSE, lit |-> ":"],
      [num |-> TRUE, width |-> 2, signed |-> FALSE, least |-> 0, most |-> 59],
      [num |-> FALSE, lit |-> ":"],
      [num |-> TRUE, width |-> 2, signed |-> FALSE, least |-> 0, most |-> 60],
      [num |-> FALSE, lit |-> "."],
      [num |-> TRUE, width |-> 9, signed |-> FALSE, least |-> 0, most |-> 999999999],
      [num |-> FALSE, lit |-> "Z"]>>

IsDigit(c) == \E d \in 0..9 : SubSeq("0123456789", d + 1, d + 1) = c
DigitOf(c) == CHOOSE d \in 0..9 : SubSeq("0123456789", d + 1, d + 1) = c

\* The string from its character i on
From(s, i) == SubSeq(s, i, Len(s))

\* The characters with the property White_Space that a string of the model
\* can hold: blank, tab, line feed, form feed, carriage return, line
\* tabulation, next line and no-break space
WhiteSpace == {" ", "\t", "\n", "\f", "\r", "", "", " "}

\* str::trim_start
RECURSIVE TrimLeft(_)
TrimLeft(s) ==
    IF Len(s) > 0 /\ SubSeq(s, 1, 1) \in WhiteSpace THEN TrimLeft(From(s, 2)) ELSE s

\* The digits without the zeros at their head: a number of any size, as text
RECURSIVE StripZeros(_)
StripZeros(d) ==
    IF Len(d) > 1 /\ SubSeq(d, 1, 1) = "0" THEN StripZeros(From(d, 2)) ELSE d

\* a <= b, for numbers as text with the same number of digits
RECURSIVE LeqDigits(_, _)
LeqDigits(a, b) ==
    IF Len(a) = 0 THEN TRUE
    ELSE IF SubSeq(a, 1, 1) # SubSeq(b, 1, 1)
    THEN DigitOf(SubSeq(a, 1, 1)) < DigitOf(SubSeq(b, 1, 1))
    ELSE LeqDigits(From(a, 2), From(b, 2))

\* a <= b, for numbers as text without zeros at their head
LeqNumber(a, b) == Len(a) < Len(b) \/ (Len(a) = Len(b) /\ LeqDigits(a, b))

I64_MAX == "9223372036854775807"
I32_MAX == "2147483647"
I32_MIN_MAGNITUDE == "2147483648"

\* The number that is n followed by the digits of d, n being negative or zero
RECURSIVE NegativeOf(_, _)
NegativeOf(d, n) ==
    IF Len(d) = 0 THEN n
    ELSE NegativeOf(From(d, 2), n * 10 - DigitOf(SubSeq(d, 1, 1)))

\* scan::number's `n`: the value of the digits of s, which checked_mul and
\* checked_add keep within i64; as text, for it may be beyond every field
NumberOf(s) ==
    LET d == StripZeros(s) IN
    IF LeqNumber(d, I64_MAX) THEN Ok(d) ELSE Err(OUT_OF_RANGE)

\* scan::number(s, 1, max): the digits at the head of s, max at most
ScanNumber(s, max) ==
    IF Len(s) < 1 THEN Err(TOO_SHORT)
    ELSE IF ~IsDigit(SubSeq(s, 1, 1)) THEN Err(INVALID)
    ELSE LET top == IF Len(s) < max THEN Len(s) ELSE max
             k == CHOOSE k \in 1..top :
                      /\ \A i \in 1..k : IsDigit(SubSeq(s, i, i))
                      /\ k < top => ~IsDigit(SubSeq(s, k + 1, k + 1))
             n == NumberOf(SubSeq(s, 1, k))
         IN  IF n.k = "err" THEN n
             ELSE Ok([rest |-> From(s, k + 1), n |-> n.v])

\* Parsed::set_year .. set_nanosecond: the value, of the sign and the digits
\* given, if the field of the item takes it
SetField(item, negative, d) ==
    IF negative
    THEN IF LeqNumber(d, I32_MIN_MAGNITUDE) /\ NegativeOf(d, 0) >= item.least
         THEN Ok(NegativeOf(d, 0)) ELSE Err(OUT_OF_RANGE)
    ELSE IF LeqNumber(d, I32_MAX) /\ 0 - NegativeOf(d, 0) \in item.least..item.most
         THEN Ok(0 - NegativeOf(d, 0)) ELSE Err(OUT_OF_RANGE)

\* A numeric item: white space is skipped, a signed item takes a sign and then
\* any number of digits, and the value is set in its field
ScanNumeric(s, item) ==
    LET t == TrimLeft(s)
        sign == item.signed /\ Len(t) > 0 /\ SubSeq(t, 1, 1) \in {"-", "+"}
        r == IF sign THEN ScanNumber(From(t, 2), Len(t)) ELSE ScanNumber(t, item.width)
    IN  IF r.k = "err" THEN r
        ELSE LET v == SetField(item, sign /\ SubSeq(t, 1, 1) = "-", r.v.n) IN
             IF v.k = "err" THEN v ELSE Ok([rest |-> r.v.rest, n |-> v.v])

\* A literal item
ScanLiteral(s, lit) ==
    IF Len(s) < Len(lit) THEN Err(TOO_SHORT)
    ELSE IF SubSeq(s, 1, Len(lit)) # lit THEN Err(INVALID)
    ELSE Ok([rest |-> From(s, Len(lit) + 1)])

\* format::parse: the numbers of the fields, in the order of the items
RECURSIVE ParseItems(_, _, _)
ParseItems(s, i, fields) ==
    IF i > Len(TimeItems)
    THEN IF Len(s) > 0 THEN Err(TOO_LONG) ELSE Ok(fields)
    ELSE IF TimeItems[i].num
    THEN LET r == ScanNumeric(s, TimeItems[i]) IN
         IF r.k = "err" THEN r ELSE ParseItems(r.v.rest, i + 1, Append(fields, r.v.n))
    ELSE LET r == ScanLiteral(s, TimeItems[i].lit) IN
         IF r.k = "err" THEN r ELSE ParseItems(r.v.rest, i + 1, fields)

IsLeapYear(y) == (y % 4 = 0 /\ y % 100 # 0) \/ y % 400 = 0

DaysIn(y, m) ==
    IF m = 2 THEN (IF IsLeapYear(y) THEN 29 ELSE 28)
    ELSE IF m \in {4, 6, 9, 11} THEN 30 ELSE 31

\* The years of NaiveDate
MIN_YEAR == -262143
MAX_YEAR == 262142

\* Parsed::to_naive_datetime_with_offset: the date and the time of the fields,
\* second 60 being a leap second
ToNaiveDateTime(f) ==
    IF /\ f[1] \in MIN_YEAR..MAX_YEAR
       /\ f[2] \in 1..12
       /\ f[3] \in 1..DaysIn(f[1], f[2])
       /\ f[4] \in 0..23
       /\ f[5] \in 0..59
       /\ f[6] \in 0..60
       /\ f[7] \in 0..999999999
    THEN Ok([date |-> <<f[1], f[2], f[3]>>,
             time |-> <<f[4], f[5], IF f[6] = 60 THEN 59 ELSE f[6]>>,
             nano |-> IF f[6] = 60 THEN f[7] + 1000000000 ELSE f[7]])
    ELSE Err(OUT_OF_RANGE)

\* NaiveDateTime::parse_from_str(s, TIME_FORMAT)
ParseFromStr(s, fmt) ==
    LET parsed == ParseItems(s, 1, <<>>) IN
    IF parsed.k = "err" THEN parsed ELSE ToNaiveDateTime(parsed.v)

get_name(file, self) ==
    LET found == get_status_by_id(file, self.id) IN
    IF found.k = "err" THEN found
    ELSE Unwrap(AsStr(Index(found.v, "Name")))

get_volume(file, self) ==
    LET found == get_status_by_id(file, self.id) IN
    IF found.k = "err" THEN found
    ELSE Unwrap(AsF64(Index(found.v, "Volume")))

get_duration(file, self) ==
    LET found == get_status_by_id(file, self.id) IN
    IF found.k = "err" THEN found
    ELSE Unwrap(AsU64(Index(found.v, "Duration")))

get_remaining(file, self) ==
    LET found == get_status_by_id(file, self.id) IN
    IF found.k = "err" THEN found
    ELSE Unwrap(AsU64(Index(found.v, "Remaining")))

is_paused(file, self) ==
    LET found == get_status_by_id(file, self.id) IN
    IF found.k = "err" THEN found
    ELSE Unwrap(AsBool(Index(found.v, "Paused")))

\* get_loop reading the key of the command instead of the key of the snapshot
get_loop_command_key(file, self) ==
    LET found == get_status_by_id(file, self.id) IN
    IF found.k = "err" THEN found
    ELSE Unwrap(AsI64(Index(found.v, "LoopCount")))

get_loop(file, self) ==
    LET found == get_status_by_id(file, self.id) IN
    IF found.k = "err" THEN found
    ELSE Unwrap(AsI64(Index(found.v, "Loop")))

get_end_time(file, self) ==
    LET found == get_status_by_id(file, self.id)
        s == IF found.k = "err" THEN found
             ELSE Unwrap(AsStr(Index(found.v, "EndTime")))
    IN
    IF s.k # "ok" THEN s
    ELSE LET t == ParseFromStr(s.v, TIME_FORMAT) IN
         IF t.k = "ok" THEN t
         ELSE Err(AudioError("Error in parsing end time. ({})", <<t.e>>))

get_start_time(file, self) ==
    LET found == get_status_by_id(file, self.id)
        s == IF found.k = "err" THEN found
             ELSE Unwrap(AsStr(Index(found.v, "StartTime")))
    IN
    IF s.k # "ok" THEN s
    ELSE LET t == ParseFromStr(s.v, TIME_FORMAT) IN
         IF t.k = "ok" THEN t
         ELSE Err(AudioError("Error in parsing start time. ({})", <<t.e>>))

get_type(self) == self.audio_type
get_id(self) == self.id

SnapshotGetters ==
    {"get_name", "get_volume", "get_duration", "get_remaining", "is_paused",
     "get_loop", "get_end_time", "get_start_time"}

\* The snapshot-backed getter called g
CallGetter(g, file, self) ==
    CASE g = "get_name" -> get_name(file, self)
      [] g = "get_volume" -> get_volume(file, self)
      [] g = "get_duration" -> get_duration(file, self)
      [] g = "get_remaining" -> get_remaining(file, self)
      [] g = "is_paused" -> is_paused(file, self)
      [] g = "get_loop" -> get_loop(file, self)
      [] g = "get_end_time" -> get_end_time(file, self)
      [] g = "get_start_time" -> get_start_time(file, self)

GlobalQueries == {"is_running", "is_disabled"}

CallGlobal(q, file) ==
    CASE q = "is_running" -> is_running(file)
      [] q = "is_disabled" -> is_disabled(file)

-----------------------------------------------------------------------------
(* Inputs *)

ToneSquare == Tone("Square", 440, 2)
FileWav == File("Wav", "audio.wav")

\* The builders of tests/test.rs, the second with an overridden name
Builders ==
    {AudioBuilder_new(ToneSquare),
     AudioBuilder_name(AudioBuilder_loop_count(AudioBuilder_does_loop(
         AudioBuilder_volume(AudioBuilder_new(FileWav), 1), TRUE), -1), "bgm")}

\* Every FileType and every ToneType
AudioTypes ==
    {File(file, "audio.wav") : file \in {"Wav", "Aiff", "Mp3"}}
    \cup {Tone(tone, 440, 2) : tone \in {"Sine", "Triangle", "Saw", "Square"}}

\* A builder as AudioBuilder::new leaves it, and one with every setter called
CreateBuilders ==
    {AudioBuilder_new(audio_type) : audio_type \in AudioTypes}
    \cup {AudioBuilder_name(AudioBuilder_loop_count(AudioBuilder_does_loop(
              AudioBuilder_volume(AudioBuilder_new(audio_type), 2), TRUE), 3), "bgm") :
          audio_type \in AudioTypes}

AudioUpdates ==
    {[volume |-> 2, paused |-> TRUE, does_loop |-> FALSE, loop_count |-> 3]}

\* The messages of the C library for the error numbers of Linux, the message
\* of error number n at place n
ErrorStrings ==
    <<"Operation not permitted", "No such file or directory",
      "No such process", "Interrupted system call", "Input/output error",
      "No such device or address", "Argument list too long",
      "Exec format error", "Bad file descriptor", "No child processes",
      "Resource temporarily unavailable", "Cannot allocate memory",
      "Permission denied", "Bad address", "Block device required",
      "Device or resource busy", "File exists", "Invalid cross-device link",
      "No such device", "Not a directory", "Is a directory",
      "Invalid argument", "Too many open files in system",
      "Too many open files", "Inappropriate ioctl for device",
      "Text file busy", "File too large", "No space left on device",
      "Illegal seek", "Read-only file system", "Too many links",
      "Broken pipe", "Numerical argument out of domain",
      "Numerical result out of range", "Resource deadlock avoided",
      "File name too long", "No locks available", "Function not implemented",
      "Directory not empty", "Too many levels of symbolic links",
      "Unknown error 41", "No message of desired type", "Identifier removed",
      "Channel number out of range", "Level 2 not synchronized",
      "Level 3 halted", "Level 3 reset", "Link number out of range",
      "Protocol driver not attached", "No CSI structure available",
      "Level 2 halted", "Invalid exchange", "Invalid request descriptor",
      "Exchange full", "No anode", "Invalid request code", "Invalid slot",
      "Unknown error 58", "Bad font file format", "Device not a stream",
      "No data available", "Timer expired", "Out of streams resources",
      "Machine is not on the network", "Package not installed",
      "Object is remote", "Link has been severed", "Advertise error",
      "Srmount error", "Communication error on send", "Protocol error",
      "Multihop attempted", "RFS specific error", "Bad message",
      "Value too large for defined data type", "Name not unique on network",
      "File descriptor in bad state", "Remote address changed",
      "Can not access a needed shared library",
      "Accessing a corrupted shared library",
      ".lib section in a.out corrupted",
      "Attempting to link in too many shared libraries",
      "Cannot exec a shared library directly",
      "Invalid or incomplete multibyte or wide character",
      "Interrupted system call should be restarted", "Streams pipe error",
      "Too many users", "Socket operation on non-socket",
      "Destination address required", "Message too long",
      "Protocol wrong type for socket", "Protocol not available",
      "Protocol not supported", "Socket type not supported",
      "Operation not supported", "Protocol family not supported",
      "Address family not supported by protocol", "Address already in use",
      "Cannot assign requested address", "Network is down",
      "Network is unreachable", "Network dropped connection on reset",
      "Software caused connection abort", "Connection reset by peer",
      "No buffer space available", "Transport endpoint is already connected",
      "Transport endpoint is not connected",
      "Cannot send after transport endpoint shutdown",
      "Too many references: cannot splice", "Connection timed out",
      "Connection refused", "Host is down", "No route to host",
      "Operation already in progress", "Operation now in progress",
      "Stale file handle", "Structure needs cleaning",
      "Not a XENIX named type file", "No XENIX semaphores available",
      "Is a named type file", "Remote I/O error", "Disk quota exceeded",
      "No medium found", "Wrong medium type", "Operation canceled",
      "Required key not available", "Key has expired",
      "Key has been revoked", "Key was rejected by service", "Owner died",
      "State not recoverable", "Operation not possible due to RF-kill",
      "Memory page has hardware error">>

\* std::sys::os::error_string: the message of strerror_r for the error number
error_string(errno) ==
    IF errno \in 1..Len(ErrorStrings) THEN ErrorStrings[errno]
    ELSE "Unknown error " \o ToString(errno)

\* e.to_string() of the io::Error of a failed system call
OsError(errno) == error_string(errno) \o " (os error " \o ToString(errno) \o ")"

\* File::open and write_all call again when the system call was interrupted
EINTR == 4

\* e.to_string() of write_all when a write takes nothing
WRITE_ZERO == "failed to write whole buffer"

\* What the open of the command file may fail with: every error of the
\* operating system but the one that is retried
OpenErrors ==
    {OsError(errno) : errno \in (1..Len(ErrorStrings)) \ {EINTR}}

\* What write!() to the command file may fail with: every error of the
\* operating system but the one that is retried, and that of write_all
WriteErrors ==
    {OsError(errno) : errno \in (1..Len(ErrorStrings)) \ {EINTR}} \cup {WRITE_ZERO}

\* The errors that the callers are made to meet where what they return is
\* not looked into
SomeOpenErrors == {OsError(2), OsError(13)}
SomeWriteErrors == {OsError(28), WRITE_ZERO}

GoodSource(id, n) ==
    JObj([ID |-> JNum(id), Name |-> JStr(n), Volume |-> JNum(1),
          Paused |-> JBool(FALSE), Loop |-> JNum(0), Duration |-> JNum(2000),
          Remaining |-> JNum(1500),
          StartTime |-> JStr("2020-05-01T12:00:00.000000000Z"),
          EndTime |-> JStr("2020-05-01T12:00:02.000000000Z")])

Doc(running, sources) ==
    JObj([Running |-> JBool(running), Disabled |-> JBool(FALSE),
          Sources |-> JArr(sources)])

\* What the status file may hold when the daemon is not assumed to behave
Snapshots ==
    {Absent, Malformed,
     Json(Doc(FALSE, <<>>)),
     Json(Doc(TRUE, <<GoodSource(1, "rust_audio_0")>>)),
     Json(Doc(TRUE, <<GoodSource(2, "bgm"), GoodSource(1, "bgm")>>)),
     Json(Doc(TRUE, <<JObj([Name |-> JStr("rust_audio_0")])>>)),
     Json(JObj([Sources |-> JArr(<<
         JObj([ID |-> JNum(2), Name |-> JStr("bgm"), StartTime |-> JStr("now")])>>)]))}

-----------------------------------------------------------------------------
(* State *)

Pending == [k |-> "pending"]
NoResult == [op |-> "none", arg |-> Unit, ret |-> Pending]

Init ==
    /\ counter = 0
    /\ channel = <<>>
    /\ status = Absent
    /\ nextId = 1
    /\ pc = [t \in Threads |-> "idle"]
    /\ name = [t \in Threads |-> ""]
    /\ cmd = [t \in Threads |-> Null]
    /\ elapsed = [t \in Threads |-> 0]
    /\ audio = [t \in Threads |-> None]
    /\ result = [t \in Threads |-> NoResult]
    /\ didRead = [t \in Threads |-> FALSE]
    /\ issued = <<>>
    /\ bound = [t \in Threads |-> ""]

\* What is left in the file of a record whose write failed half-way
Truncated(record) == [t |-> "truncated"]

\* The operation of thread t returns ret; its locals go out of scope
Return(t, ret) ==
    /\ result' = [result EXCEPT ![t].ret = ret]
    /\ pc' = [pc EXCEPT ![t] = IF ret.k = "panic" THEN "panicked" ELSE "idle"]
    /\ name' = [name EXCEPT ![t] = ""]
    /\ cmd' = [cmd EXCEPT ![t] = Null]
    /\ elapsed' = [elapsed EXCEPT ![t] = 0]

-----------------------------------------------------------------------------
(* AudioBuilder::build *)

\* BuildBegin that draws a number from the counter before it looks at the name
BuildBegin_eager(t, self) ==
    /\ pc[t] = "idle"
    /\ counter < MaxCounter
    /\ name' = [name EXCEPT ![t] =
                   IF self.name.some THEN self.name.v ELSE GeneratedName(counter)]
    /\ counter' = FetchAdd(counter)
    /\ issued' = IF self.name.some THEN issued ELSE Append(issued, name'[t])
    /\ cmd' = [cmd EXCEPT ![t] = SerializedCreate(name'[t], self)]
    /\ result' = [result EXCEPT ![t] = [op |-> "build", arg |-> self, ret |-> Pending]]
    /\ didRead' = [didRead EXCEPT ![t] = FALSE]
    /\ pc' = [pc EXCEPT ![t] = "open"]
    /\ UNCHANGED <<channel, status, nextId, elapsed, audio, bound>>

\* The name of the created source and the serialized command
BuildBegin(t, self) ==
    /\ pc[t] = "idle"
    /\ self.name.some \/ counter < MaxCounter
    /\ name' = [name EXCEPT ![t] =
                   IF self.name.some THEN self.name.v ELSE GeneratedName(counter)]
    /\ counter' = IF self.name.some THEN counter ELSE FetchAdd(counter)
    /\ issued' = IF self.name.some THEN issued ELSE Append(issued, name'[t])
    /\ cmd' = [cmd EXCEPT ![t] = SerializedCreate(name'[t], self)]
    /\ result' = [result EXCEPT ![t] = [op |-> "build", arg |-> self, ret |-> Pending]]
    /\ didRead' = [didRead EXCEPT ![t] = FALSE]
    /\ pc' = [pc EXCEPT ![t] = "open"]
    /\ UNCHANGED <<channel, status, nextId, elapsed, audio, bound>>

BuildOpenOk(t) ==
    /\ pc[t] = "open"
    /\ pc' = [pc EXCEPT ![t] = "write"]
    /\ UNCHANGED <<counter, channel, status, nextId, name, cmd, elapsed, audio,
                   result, didRead, issued, bound>>

\* The open failed with the error e
BuildOpenErr(t, e) ==
    /\ pc[t] = "open"
    /\ Return(t, OpenError(e))
    /\ UNCHANGED <<counter, channel, status, nextId, audio, didRead, issued, bound>>

\* BuildWriteOk on a file opened without append(true)
BuildWriteOk_overwrite(t) ==
    /\ pc[t] = "write"
    /\ Len(channel) < MaxChan
    /\ channel' = <<cmd[t]>>
    /\ elapsed' = [elapsed EXCEPT ![t] = 0]
    /\ pc' = [pc EXCEPT ![t] = "poll"]
    /\ UNCHANGED <<counter, status, nextId, name, cmd, audio, result, didRead,
                   issued, bound>>

\* write!() succeeded; start_time = Instant::now()
BuildWriteOk(t) ==
    /\ pc[t] = "write"
    /\ Len(channel) < MaxChan
    /\ channel' = Append(channel, cmd[t])
    /\ elapsed' = [elapsed EXCEPT ![t] = 0]
    /\ pc' = [pc EXCEPT ![t] = "poll"]
    /\ UNCHANGED <<counter, status, nextId, name, cmd, audio, result, didRead,
                   issued, bound>>

\* BuildWriteErr that drops the error of write!() and goes on to the loop
BuildWriteErr_polls(t, e) ==
    /\ pc[t] = "write"
    /\ \/ UNCHANGED channel
       \/ /\ Len(channel) < MaxChan
          /\ channel' = Append(channel, Truncated(cmd[t]))
    /\ elapsed' = [elapsed EXCEPT ![t] = 0]
    /\ pc' = [pc EXCEPT ![t] = "poll"]
    /\ UNCHANGED <<counter, status, nextId, name, cmd, audio, result, didRead,
                   issued, bound>>

\* write!() failed with the error e, with nothing or with a part of the
\* record written
BuildWriteErr(t, e) ==
    /\ pc[t] = "write"
    /\ \/ UNCHANGED channel
       \/ /\ Len(channel) < MaxChan
          /\ channel' = Append(channel, Truncated(cmd[t]))
    /\ Return(t, WriteError(e))
    /\ UNCHANGED <<counter, status, nextId, audio, didRead, issued, bound>>

\* BuildPoll that writes the command again on a pass that found nothing
BuildPoll_resend(t) ==
    /\ pc[t] = "poll"
    /\ elapsed[t] <= TIME_OUT
    /\ didRead' = [didRead EXCEPT ![t] = TRUE]
    /\ LET out == PollOnce(status, name[t], result[t].arg.audio_type) IN
       IF out.some
       THEN /\ Return(t, out.v)
            /\ audio' = IF out.v.k = "ok"
                        THEN [audio EXCEPT ![t] = Some(out.v.v)]
                        ELSE audio
            /\ bound' = IF out.v.k = "ok"
                        THEN [bound EXCEPT ![t] = name[t]]
                        ELSE bound
            /\ UNCHANGED channel
       ELSE /\ Len(channel) < MaxChan
            /\ channel' = Append(channel, cmd[t])
            /\ UNCHANGED <<pc, result, audio, name, cmd, elapsed, bound>>
    /\ UNCHANGED <<counter, status, nextId, issued>>

\* One pass of `while start_time.elapsed() <= time_out`
BuildPoll(t) ==
    /\ pc[t] = "poll"
    /\ elapsed[t] <= TIME_OUT
    /\ didRead' = [didRead EXCEPT ![t] = TRUE]
    /\ LET out == PollOnce(status, name[t], result[t].arg.audio_type) IN
       IF out.some
       THEN /\ Return(t, out.v)
            /\ audio' = IF out.v.k = "ok"
                        THEN [audio EXCEPT ![t] = Some(out.v.v)]
                        ELSE audio
            /\ bound' = IF out.v.k = "ok"
                        THEN [bound EXCEPT ![t] = name[t]]
                        ELSE bound
       ELSE UNCHANGED <<pc, result, audio, name, cmd, elapsed, bound>>
    /\ UNCHANGED <<counter, channel, status, nextId, issued>>

BuildTimeout(t) ==
    /\ pc[t] = "poll"
    /\ ~(elapsed[t] <= TIME_OUT)
    /\ Return(t, TimedOut)
    /\ UNCHANGED <<counter, channel, status, nextId, audio, didRead, issued, bound>>

-----------------------------------------------------------------------------
(* Queries *)

\* The operation op of thread t, which is one step, returns ret
Answer(t, op, ret) ==
    /\ result' = [result EXCEPT ![t] = [op |-> op, arg |-> Unit, ret |-> ret]]
    /\ pc' = [pc EXCEPT ![t] = IF ret.k = "panic" THEN "panicked" ELSE "idle"]

\* Getter that keeps the value it returned and returns it again, without a
\* read, to the next call of the same getter
Getter_cached(t, g) ==
    /\ pc[t] = "idle"
    /\ audio[t].some
    /\ LET cached == result[t].op = g /\ result[t].ret.k = "ok" IN
       /\ didRead' = [didRead EXCEPT ![t] = ~cached]
       /\ Answer(t, g, IF cached THEN result[t].ret
                       ELSE CallGetter(g, status, audio[t].v))
    /\ UNCHANGED <<counter, channel, status, nextId, name, cmd, elapsed, audio,
                   issued, bound>>

Getter(t, g) ==
    /\ pc[t] = "idle"
    /\ audio[t].some
    /\ didRead' = [didRead EXCEPT ![t] = TRUE]
    /\ Answer(t, g, CallGetter(g, status, audio[t].v))
    /\ UNCHANGED <<counter, channel, status, nextId, name, cmd, elapsed, audio,
                   issued, bound>>

\* get_id() and get_type() that look the source up before they answer
StoredGetter_reads(t, g) ==
    /\ pc[t] = "idle"
    /\ audio[t].some
    /\ didRead' = [didRead EXCEPT ![t] = TRUE]
    /\ LET found == get_status_by_id(status, audio[t].v.id) IN
       Answer(t, g, IF found.k = "err" THEN found
                    ELSE Ok(IF g = "get_id" THEN get_id(audio[t].v)
                                            ELSE get_type(audio[t].v)))
    /\ UNCHANGED <<counter, channel, status, nextId, name, cmd, elapsed, audio,
                   issued, bound>>

\* get_id() and get_type()
StoredGetter(t, g) ==
    /\ pc[t] = "idle"
    /\ audio[t].some
    /\ didRead' = [didRead EXCEPT ![t] = FALSE]
    /\ Answer(t, g, Ok(IF g = "get_id" THEN get_id(audio[t].v)
                                       ELSE get_type(audio[t].v)))
    /\ UNCHANGED <<counter, channel, status, nextId, name, cmd, elapsed, audio,
                   issued, bound>>

GlobalQuery(t, q) ==
    /\ pc[t] = "idle"
    /\ didRead' = [didRead EXCEPT ![t] = TRUE]
    /\ Answer(t, q, CallGlobal(q, status))
    /\ UNCHANGED <<counter, channel, status, nextId, name, cmd, elapsed, audio,
                   issued, bound>>

-----------------------------------------------------------------------------
(* Audio::update *)

UpdateBegin(t, update) ==
    /\ pc[t] = "idle"
    /\ audio[t].some
    /\ cmd' = [cmd EXCEPT ![t] = SerializedUpdate(audio[t].v, update)]
    /\ result' = [result EXCEPT ![t] =
                     [op |-> "update", arg |-> update, ret |-> Pending]]
    /\ didRead' = [didRead EXCEPT ![t] = FALSE]
    /\ pc' = [pc EXCEPT ![t] = "uopen"]
    /\ UNCHANGED <<counter, channel, status, nextId, name, elapsed, audio, issued, bound>>

UpdateOpenOk(t) ==
    /\ pc[t] = "uopen"
    /\ pc' = [pc EXCEPT ![t] = "uwrite"]
    /\ UNCHANGED <<counter, channel, status, nextId, name, cmd, elapsed, audio,
                   result, didRead, issued, bound>>

UpdateOpenErr(t, e) ==
    /\ pc[t] = "uopen"
    /\ Return(t, OpenError(e))
    /\ UNCHANGED <<counter, channel, status, nextId, audio, didRead, issued, bound>>

UpdateWriteOk(t) ==
    /\ pc[t] = "uwrite"
    /\ Len(channel) < MaxChan
    /\ channel' = Append(channel, cmd[t])
    /\ Return(t, Ok(Unit))
    /\ UNCHANGED <<counter, status, nextId, audio, didRead, issued, bound>>

UpdateWriteErr(t, e) ==
    /\ pc[t] = "uwrite"
    /\ \/ UNCHANGED channel
       \/ /\ Len(channel) < MaxChan
          /\ channel' = Append(channel, Truncated(cmd[t]))
    /\ Return(t, WriteError(e))
    /\ UNCHANGED <<counter, status, nextId, audio, didRead, issued, bound>>

-----------------------------------------------------------------------------
(* The environment *)

\* A second passes
Tick ==
    /\ \E t \in Threads : pc[t] = "poll" /\ elapsed[t] <= TIME_OUT
    /\ elapsed' = [t \in Threads |->
                      IF pc[t] = "poll" /\ elapsed[t] <= TIME_OUT
                      THEN elapsed[t] + 1 ELSE elapsed[t]]
    /\ UNCHANGED <<counter, channel, status, nextId, pc, name, cmd, audio,
                   result, didRead, issued, bound>>

\* The status file is replaced
Rewrite(file) ==
    /\ status # file
    /\ status' = file
    /\ UNCHANGED <<counter, channel, nextId, pc, name, cmd, elapsed, audio,
                   result, didRead, issued, bound>>

\* The oldest record leaves the channel
Drain ==
    /\ channel # <<>>
    /\ channel' = Tail(channel)
    /\ UNCHANGED <<counter, status, nextId, pc, name, cmd, elapsed, audio,
                   result, didRead, issued, bound>>

-----------------------------------------------------------------------------
(* One caller, any daemon *)

Next ==
    \/ \E self \in Builders : BuildBegin(1, self)
    \/ BuildOpenOk(1)
    \/ \E e \in SomeOpenErrors : BuildOpenErr(1, e)
    \/ BuildWriteOk(1)
    \/ \E e \in SomeWriteErrors : BuildWriteErr(1, e)
    \/ BuildPoll(1)
    \/ BuildTimeout(1)
    \/ \E g \in SnapshotGetters : Getter(1, g)
    \/ \E g \in {"get_id", "get_type"} : StoredGetter(1, g)
    \/ \E q \in GlobalQueries : GlobalQuery(1, q)
    \/ \E update \in AudioUpdates : UpdateBegin(1, update)
    \/ UpdateOpenOk(1)
    \/ \E e \in SomeOpenErrors : UpdateOpenErr(1, e)
    \/ UpdateWriteOk(1)
    \/ \E e \in SomeWriteErrors : UpdateWriteErr(1, e)
    \/ Tick
    \/ \E file \in Snapshots : Rewrite(file)
    \/ Drain

Spec == Init /\ [][Next]_vars

-----------------------------------------------------------------------------
(* One caller that builds, any daemon, every error of the operating system *)

NextIo ==
    \/ \E self \in Builders : BuildBegin(1, self)
    \/ BuildOpenOk(1)
    \/ \E e \in OpenErrors : BuildOpenErr(1, e)
    \/ BuildWriteOk(1)
    \/ \E e \in WriteErrors : BuildWriteErr(1, e)
    \/ BuildPoll(1)
    \/ BuildTimeout(1)
    \/ Tick
    \/ \E file \in Snapshots : Rewrite(file)
    \/ Drain

SpecIo == Init /\ [][NextIo]_vars

-----------------------------------------------------------------------------
(* The resolver on an enumerated snapshot *)

SourceRecords ==
    {GoodSource(id, n) : id \in {1, 2}, n \in {"rust_audio_0", "bgm"}}
    \cup {JObj([Name |-> JStr("bgm")]),
          JObj([ID |-> JNum(1)]),
          JObj([ID |-> JStr("1"), Name |-> JNum(1)]),
          JObj([ID |-> JNum(2), Name |-> JStr("bgm"),
                StartTime |-> JStr("2020-05-01T12:00:00.5Z"),
                EndTime |-> JStr("2020-13-01T12:00:00.000000000Z")]),
          JNum(7)}

SeqsUpTo(S, n) == UNION {[1..k -> S] : k \in 0..n}

EnumeratedSnapshots ==
    {Absent, Unreadable, NotUtf8,
     Json(JNum(0)),
     Json(JObj([Running |-> JStr("yes")])),
     Json(JObj([Sources |-> JStr("none"), Disabled |-> JBool(TRUE)]))}
    \cup {MalformedText(text) : text \in DOMAIN JsonErrors}
    \cup {Json(Doc(TRUE, sources)) : sources \in SeqsUpTo(SourceRecords, MaxSources)}

HeldIds == {1, 2, 3}

InitResolver ==
    /\ counter = 0
    /\ channel = <<>>
    /\ status \in EnumeratedSnapshots
    /\ nextId = 1
    /\ pc = [t \in Threads |-> "idle"]
    /\ name = [t \in Threads |-> ""]
    /\ cmd = [t \in Threads |-> Null]
    /\ elapsed = [t \in Threads |-> 0]
    /\ \E id \in HeldIds :
          audio = [t \in Threads |->
                      IF t = 1 THEN Some([id |-> id, audio_type |-> ToneSquare])
                      ELSE None]
    /\ result = [t \in Threads |-> NoResult]
    /\ didRead = [t \in Threads |-> FALSE]
    /\ issued = <<>>
    /\ bound = [t \in Threads |-> ""]

ParseStatus(t) ==
    /\ pc[t] = "idle"
    /\ didRead' = [didRead EXCEPT ![t] = TRUE]
    /\ Answer(t, "parse_status", parse_status(status))
    /\ UNCHANGED <<counter, channel, status, nextId, name, cmd, elapsed, audio,
                   issued, bound>>

NextResolver ==
    \/ ParseStatus(1)
    \/ \E g \in SnapshotGetters : Getter(1, g)
    \/ \E q \in GlobalQueries : GlobalQuery(1, q)

SpecResolver == InitResolver /\ [][NextResolver]_vars

-----------------------------------------------------------------------------
(* The lookups on an enumerated snapshot *)

LookupNames == {"rust_audio_0", "bgm", "none"}

\* The builder of test_play_audio_file under the name "bgm"
NamedBuilders ==
    {AudioBuilder_name(AudioBuilder_loop_count(AudioBuilder_does_loop(
         AudioBuilder_volume(AudioBuilder_new(FileWav), 1), TRUE), -1), "bgm")}

\* A call of get_status_by_id(id)
LookupById(t, id) ==
    /\ pc[t] = "idle"
    /\ didRead' = [didRead EXCEPT ![t] = TRUE]
    /\ result' = [result EXCEPT ![t] = [op |-> "get_status_by_id", arg |-> id,
                                         ret |-> get_status_by_id(status, id)]]
    /\ UNCHANGED <<counter, channel, status, nextId, pc, name, cmd, elapsed, audio,
                   issued, bound>>

\* A call of get_status_by_name(n)
LookupByName(t, n) ==
    /\ pc[t] = "idle"
    /\ didRead' = [didRead EXCEPT ![t] = TRUE]
    /\ result' = [result EXCEPT ![t] = [op |-> "get_status_by_name", arg |-> n,
                                         ret |-> get_status_by_name(status, n)]]
    /\ UNCHANGED <<counter, channel, status, nextId, pc, name, cmd, elapsed, audio,
                   issued, bound>>

NextLookup ==
    \/ \E id \in HeldIds : LookupById(1, id)
    \/ \E n \in LookupNames : LookupByName(1, n)
    \/ \E self \in NamedBuilders : BuildBegin(1, self)
    \/ BuildOpenOk(1)
    \/ \E e \in SomeOpenErrors : BuildOpenErr(1, e)
    \/ BuildWriteOk(1)
    \/ \E e \in SomeWriteErrors : BuildWriteErr(1, e)
    \/ BuildPoll(1)
    \/ BuildTimeout(1)
    \/ Tick

SpecLookup == InitResolver /\ [][NextLookup]_vars

-----------------------------------------------------------------------------
(* Two callers and a daemon that serves the channel *)

\* Builders that leave the name to build()
DaemonBuilders ==
    {AudioBuilder_new(ToneSquare),
     AudioBuilder_loop_count(AudioBuilder_does_loop(
         AudioBuilder_volume(AudioBuilder_new(FileWav), 1), TRUE), -1)}

\* The builder of test_play_tone
ToneBuilders == {AudioBuilder_new(ToneSquare)}

DaemonUpdates ==
    {[volume |-> 0, paused |-> FALSE, does_loop |-> FALSE, loop_count |-> -1],
     [volume |-> 2, paused |-> TRUE, does_loop |-> TRUE, loop_count |-> 3]}

\* The getter the caller calls between its updates
DaemonGetters == {"get_volume"}

\* The sources the daemon has published
Published == Members(Index(status.doc, "Sources"))

\* The record the daemon publishes for a create command: a source that does
\* not loop reports Loop 0, a tone lasts its Seconds
NewSource(id, create) ==
    JObj([ID |-> JNum(id),
          Name |-> create.f.Name,
          Volume |-> create.f.Volume,
          Paused |-> JBool(FALSE),
          Loop |-> JNum(IF create.f.DoesLoop.v THEN create.f.LoopCount.v ELSE 0),
          Duration |-> JNum(IF create.f.Type.v = "tone"
                            THEN create.f.Args.f.Seconds.v * 1000 ELSE 30000),
          Remaining |-> JNum(0),
          StartTime |-> JStr("2020-05-01T12:00:00.000000000Z"),
          EndTime |-> JStr("2020-05-01T12:00:02.000000000Z")])

\* The source after the daemon has applied an update record to it
Applied(source, update) ==
    IF source.f.ID.v = update.f.ID.v
    THEN JObj([source.f EXCEPT !.Volume = update.f.Volume,
                               !.Paused = update.f.Paused,
                               !.Loop = update.f.LoopCount])
    ELSE source

InitDaemon ==
    /\ counter = 0
    /\ channel = <<>>
    /\ status = Json(Doc(FALSE, <<>>))
    /\ nextId = 1
    /\ pc = [t \in Threads |-> "idle"]
    /\ name = [t \in Threads |-> ""]
    /\ cmd = [t \in Threads |-> Null]
    /\ elapsed = [t \in Threads |-> 0]
    /\ audio = [t \in Threads |-> None]
    /\ result = [t \in Threads |-> NoResult]
    /\ didRead = [t \in Threads |-> FALSE]
    /\ issued = <<>>
    /\ bound = [t \in Threads |-> ""]

\* The daemon takes a create command from the channel and publishes the source
DaemonCreate ==
    /\ channel # <<>>
    /\ Head(channel).t = "obj"
    /\ "Name" \in DOMAIN Head(channel).f
    /\ status' = Json(Doc(TRUE, Append(Published, NewSource(nextId, Head(channel)))))
    /\ nextId' = nextId + 1
    /\ channel' = Tail(channel)
    /\ UNCHANGED <<counter, pc, name, cmd, elapsed, audio, result, didRead, issued, bound>>

\* The daemon takes an update record from the channel and applies it
DaemonUpdate ==
    /\ channel # <<>>
    /\ Head(channel).t = "obj"
    /\ "ID" \in DOMAIN Head(channel).f
    /\ status' = Json(Doc(Published # <<>>,
                          [i \in 1..Len(Published) |->
                              Applied(Published[i], Head(channel))]))
    /\ channel' = Tail(channel)
    /\ UNCHANGED <<counter, nextId, pc, name, cmd, elapsed, audio, result,
                   didRead, issued, bound>>

\* A source ends and leaves the snapshot
DaemonRemove(i) ==
    /\ i \in 1..Len(Published)
    /\ LET left == [j \in 1..(Len(Published) - 1) |->
                       IF j < i THEN Published[j] ELSE Published[j + 1]]
       IN  status' = Json(Doc(left # <<>>, left))
    /\ UNCHANGED <<counter, channel, nextId, pc, name, cmd, elapsed, audio,
                   result, didRead, issued, bound>>

\* The daemon drops a record that a failed write has cut short
DaemonDiscard ==
    /\ channel # <<>>
    /\ Head(channel).t = "truncated"
    /\ channel' = Tail(channel)
    /\ UNCHANGED <<counter, status, nextId, pc, name, cmd, elapsed, audio,
                   result, didRead, issued, bound>>

DaemonProcess == DaemonCreate \/ DaemonUpdate \/ DaemonDiscard

\* One caller
NextDaemon ==
    \/ \E self \in ToneBuilders : BuildBegin(1, self)
    \/ BuildOpenOk(1)
    \/ \E e \in SomeOpenErrors : BuildOpenErr(1, e)
    \/ BuildWriteOk(1)
    \/ \E e \in SomeWriteErrors : BuildWriteErr(1, e)
    \/ BuildPoll(1)
    \/ BuildTimeout(1)
    \/ \E g \in DaemonGetters : Getter(1, g)
    \/ \E update \in DaemonUpdates : UpdateBegin(1, update)
    \/ UpdateOpenOk(1)
    \/ \E e \in SomeOpenErrors : UpdateOpenErr(1, e)
    \/ UpdateWriteOk(1)
    \/ \E e \in SomeWriteErrors : UpdateWriteErr(1, e)
    \/ Tick
    \/ DaemonCreate
    \/ DaemonUpdate
    \/ DaemonDiscard
    \/ \E i \in 1..MaxCounter : DaemonRemove(i)

\* The daemon drains the channel
SpecDaemon == InitDaemon /\ [][NextDaemon]_vars /\ WF_vars(DaemonProcess)

\* The identities the daemon gives out
DaemonIds == 1..MaxCounter

\* The daemon takes a create command from the channel and publishes the source
\* under an identity that no record of the snapshot has
DaemonCreateAny ==
    /\ channel # <<>>
    /\ Head(channel).t = "obj"
    /\ "Name" \in DOMAIN Head(channel).f
    /\ \E id \in DaemonIds :
          /\ \A i \in 1..Len(Published) : Published[i].f.ID.v # id
          /\ status' = Json(Doc(TRUE, Append(Published, NewSource(id, Head(channel)))))
    /\ channel' = Tail(channel)
    /\ UNCHANGED <<counter, nextId, pc, name, cmd, elapsed, audio, result, didRead,
                   issued, bound>>

\* Two threads that build, and a daemon whose identities are unique within the
\* snapshot
NextReuse ==
    \/ \E t \in Threads :
          \/ \E self \in DaemonBuilders : BuildBegin(t, self)
          \/ BuildOpenOk(t)
          \/ \E e \in SomeOpenErrors : BuildOpenErr(t, e)
          \/ BuildWriteOk(t)
          \/ \E e \in SomeWriteErrors : BuildWriteErr(t, e)
          \/ BuildPoll(t)
          \/ BuildTimeout(t)
    \/ Tick
    \/ DaemonCreateAny
    \/ DaemonDiscard
    \/ \E i \in 1..MaxCounter : DaemonRemove(i)

SpecReuse == InitDaemon /\ [][NextReuse]_vars

\* Two threads that build
NextThreads ==
    \/ \E t \in Threads :
          \/ \E self \in DaemonBuilders : BuildBegin(t, self)
          \/ BuildOpenOk(t)
          \/ \E e \in SomeOpenErrors : BuildOpenErr(t, e)
          \/ BuildWriteOk(t)
          \/ \E e \in SomeWriteErrors : BuildWriteErr(t, e)
          \/ BuildPoll(t)
          \/ BuildTimeout(t)
          \/ \E g \in {"get_name"} : Getter(t, g)
    \/ Tick
    \/ DaemonCreate
    \/ DaemonDiscard
    \/ \E i \in 1..MaxCounter : DaemonRemove(i)

SpecThreads == InitDaemon /\ [][NextThreads]_vars

-----------------------------------------------------------------------------
(* One caller that builds one source, of any type; any daemon *)

\* Some generated names may have been given out before
InitCreate ==
    /\ counter \in 0..(MaxCounter - 1)
    /\ channel = <<>>
    /\ status = Absent
    /\ nextId = 1
    /\ pc = [t \in Threads |-> "idle"]
    /\ name = [t \in Threads |-> ""]
    /\ cmd = [t \in Threads |-> Null]
    /\ elapsed = [t \in Threads |-> 0]
    /\ audio = [t \in Threads |-> None]
    /\ result = [t \in Threads |-> NoResult]
    /\ didRead = [t \in Threads |-> FALSE]
    /\ issued = [i \in 1..counter |-> GeneratedName(i - 1)]
    /\ bound = [t \in Threads |-> ""]

\* The first call of the caller
FirstBuild(t, self) ==
    /\ result[t].op = "none"
    /\ BuildBegin(t, self)

NextCreate ==
    \/ \E self \in CreateBuilders : FirstBuild(1, self)
    \/ BuildOpenOk(1)
    \/ \E e \in SomeOpenErrors : BuildOpenErr(1, e)
    \/ BuildWriteOk(1)
    \/ \E e \in SomeWriteErrors : BuildWriteErr(1, e)
    \/ BuildPoll(1)
    \/ BuildTimeout(1)
    \/ Tick
    \/ \E file \in Snapshots : Rewrite(file)
    \/ Drain

SpecCreate == InitCreate /\ [][NextCreate]_vars

-----------------------------------------------------------------------------
(* Properties *)

\* The Sources array as it stands in the file, <<>> if there is none
SourcesIn(file) ==
    IF /\ file.kind = "json"
       /\ file.doc.t = "obj"
       /\ "Sources" \in DOMAIN file.doc.f
       /\ file.doc.f.Sources.t = "arr"
    THEN file.doc.f.Sources.items
    ELSE <<>>

\* The record has the scalar value under the key
HasField(record, key, value) ==
    /\ record.t = "obj"
    /\ key \in DOMAIN record.f
    /\ record.f[key].t = value.t
    /\ record.f[key].v = value.v

\* This step is the return of a Handle from build() of thread t
BuildReturnsHandle(t) ==
    /\ result[t].op = "build"
    /\ result[t].ret.k = "pending"
    /\ result'[t].ret.k = "ok"

\* C1: build() returns a Handle only from a poll that read a snapshot holding a
\* record with the submitted name; the Handle carries the ID of that record and
\* the source type of the builder.
C1_HandleOnlyFromObservedName ==
    [][\A t \in Threads :
          BuildReturnsHandle(t) =>
              /\ pc[t] = "poll"
              /\ didRead'[t]
              /\ audio'[t] = Some(result'[t].ret.v)
              /\ \E i \in 1..Len(SourcesIn(status)) :
                    /\ HasField(SourcesIn(status)[i], "Name", JStr(name[t]))
                    /\ HasField(SourcesIn(status)[i], "ID", JNum(result'[t].ret.v.id))
              /\ result'[t].ret.v.audio_type = result[t].arg.audio_type]_vars

\* A build() with an overridden name has returned the Handle of source 2
C1_Witness ==
    /\ result[1].op = "build"
    /\ result[1].ret.k = "ok"
    /\ result[1].ret.v.id = 2
    /\ result[1].ret.v.audio_type = FileWav

\* The identity id is the ID of no record of the Sources array of the file
IdAbsent(file, id) ==
    \A i \in 1..Len(SourcesIn(file)) : ~HasField(SourcesIn(file)[i], "ID", JNum(id))

NotFoundById(id) == Err([msg |-> <<"No audio source found with id {}.", id>>])

\* C6: with a readable, well-formed snapshot in which the Handle's identity does
\* not appear, every snapshot-backed getter fails with the not-found error.
C6_StaleHandleNotFound ==
    \A t \in Threads :
        (/\ result[t].op \in SnapshotGetters
         /\ status.kind = "json"
         /\ IdAbsent(status, audio[t].v.id))
        => result[t].ret = NotFoundById(audio[t].v.id)

\* get_start_time() was called on Handle 2 while the snapshot held source 1 only
C6_Witness ==
    /\ status = Json(Doc(TRUE, <<GoodSource(1, "bgm")>>))
    /\ audio[1].v.id = 2
    /\ result[1].op = "get_start_time"
    /\ result[1].ret.k = "err"

IsError(ret, template) == ret.k = "err" /\ ret.e.msg[1] = template

\* The file cannot be read into a string: it is absent, may not be opened, or
\* does not hold UTF-8 text
CannotBeRead(file) == file.kind \in {"absent", "unreadable", "not_utf8"}

\* C7: parse_status() fails with the read error exactly for an absent or
\* unreadable file, with the parse error exactly for a readable malformed one,
\* and returns the document otherwise; the messages of the read, parse,
\* not-found and timeout errors differ.
C7_ParseStatusErrors ==
    /\ \A t \in Threads :
          result[t].op = "parse_status" =>
              /\ IsError(result[t].ret, "Error in reading {}. ({})")
                    <=> CannotBeRead(status)
              /\ IsError(result[t].ret, "Error in parsing JSON. ({})")
                    <=> status.kind = "malformed"
              /\ result[t].ret.k = "ok" <=> status.kind = "json"
              /\ status.kind = "json" => result[t].ret = Ok(status.doc)
    /\ \A t \in Threads :
          (result[t].op \in SnapshotGetters /\ result[t].ret.k = "err") =>
              /\ result[t].ret.e.msg[1] # TimedOut.e.msg[1]
              /\ IsError(result[t].ret, "Error in reading {}. ({})")
                    <=> CannotBeRead(status)
              /\ IsError(result[t].ret, "Error in parsing JSON. ({})")
                    <=> status.kind = "malformed"
              /\ IsError(result[t].ret, "No audio source found with id {}.")
                    => (status.kind = "json" /\ IdAbsent(status, audio[t].v.id))

\* parse_status() was called on a malformed file and failed
C7_Witness ==
    /\ status = Malformed
    /\ result[1].op = "parse_status"
    /\ result[1].ret.k = "err"

-----------------------------------------------------------------------------

\* This step ends the build() of thread t
BuildEnds(t) ==
    /\ result[t].op = "build"
    /\ result[t].ret.k = "pending"
    /\ result'[t].ret.k # "pending"

IsIoError(ret) ==
    \/ IsError(ret, "Error in opening {}. ({})")
    \/ IsError(ret, "Error in writing to {}. ({})")

IsTimeout(ret) == IsError(ret, "Timed out while waiting for {} to update.")

\* A record of the Sources array of the file has the name n
NameIn(file, n) ==
    \E i \in 1..Len(SourcesIn(file)) : HasField(SourcesIn(file)[i], "Name", JStr(n))

\* C2: every build() call ends with a Handle, an I/O error or the timeout error;
\* the timeout error is returned only from the loop, once more than TIME_OUT
\* seconds have elapsed, and then nothing else is returned.
C2_BuildEndsInHandleIoOrTimeout ==
    [][\A t \in Threads :
          /\ BuildEnds(t) =>
                \/ result'[t].ret.k = "ok"
                \/ IsIoError(result'[t].ret)
                \/ IsTimeout(result'[t].ret)
          /\ (BuildEnds(t) /\ IsTimeout(result'[t].ret)) =>
                (pc[t] = "poll" /\ elapsed[t] > TIME_OUT)
          /\ (BuildEnds(t) /\ pc[t] = "poll" /\ elapsed[t] > TIME_OUT) =>
                IsTimeout(result'[t].ret)]_vars

\* C3: the names generated by build() are pairwise distinct, in sequence and
\* across threads.
C3_GeneratedNamesDistinct ==
    /\ \A i, j \in 1..Len(issued) : i # j => issued[i] # issued[j]
    /\ \A t1, t2 \in Threads :
          (t1 # t2 /\ pc[t1] \in {"open", "write", "poll"}
                   /\ pc[t2] \in {"open", "write", "poll"})
          => cmd[t1].f.Name.v # cmd[t2].f.Name.v

\* Two threads are inside build() at once, both with the same builder
C3_Witness ==
    /\ Len(issued) = 2
    /\ pc[1] = "poll"
    /\ pc[2] = "write"
    /\ result[1].arg = result[2].arg

\* C4: the polling loop ends with a Handle when it reads, within TIME_OUT, a
\* snapshot holding the submitted name, and with the timeout error otherwise:
\* no read or parse error leaves the loop.
C4_LoopEndsInHandleOrTimeout ==
    [][\A t \in Threads :
          (pc[t] = "poll" /\ pc'[t] # "poll") =>
              IF NameIn(status, name[t]) /\ elapsed[t] <= TIME_OUT
              THEN result'[t].ret.k = "ok"
              ELSE IsTimeout(result'[t].ret)]_vars

\* C5: every public operation returns a value or an error, whatever the status
\* file holds; none aborts.
C5_NoOperationAborts ==
    \A t \in Threads : pc[t] # "panicked" /\ result[t].ret.k # "panic"

\* This step is the successful return of update() of thread t
UpdateReturnsOk(t) ==
    /\ result[t].op = "update"
    /\ result[t].ret.k = "pending"
    /\ result'[t].ret.k = "ok"

\* The Update record for the identity id and the update u
UpdateRecord(id, u) ==
    [t |-> "obj",
     f |-> [ID |-> [t |-> "num", v |-> id],
            Volume |-> [t |-> "num", v |-> u.volume],
            Paused |-> [t |-> "bool", v |-> u.paused],
            DoesLoop |-> [t |-> "bool", v |-> u.does_loop],
            LoopCount |-> [t |-> "num", v |-> u.loop_count]]]

\* C8: a successful update() appends exactly one Update record, with the held
\* identity and the given values, and returns without reading the snapshot.
C8_UpdateFireAndForget ==
    [][\A t \in Threads :
          UpdateReturnsOk(t) =>
              /\ channel' = Append(channel, UpdateRecord(audio[t].v.id, result[t].arg))
              /\ ~didRead'[t]
              /\ status' = status
              /\ audio' = audio]_vars

\* update() has returned Ok while its record waits in the channel and there is
\* no status file at all
C8_Witness ==
    /\ result[1].op = "update"
    /\ result[1].ret.k = "ok"
    /\ status = Absent
    /\ channel # <<>>
    /\ channel[Len(channel)] = UpdateRecord(audio[1].v.id, result[1].arg)

Held(id) == [id |-> id, audio_type |-> ToneSquare]

Returns(ret, value) == ret.k = "ok" /\ ret.v = value

\* The last operation of thread t is a successful update(u) on the identity id
Updated(t, id, u) ==
    /\ result[t].op = "update"
    /\ result[t].ret.k = "ok"
    /\ result[t].arg = u
    /\ audio[t].v.id = id

\* The getters return the values of u for the identity id
Reflects(id, u) ==
    /\ Returns(get_volume(status, Held(id)), u.volume)
    /\ Returns(is_paused(status, Held(id)), u.paused)
    /\ Returns(get_loop(status, Held(id)), u.loop_count)

\* C9: with a daemon that drains the channel and applies every Update record,
\* after a successful update(u) the getters eventually return the values of u,
\* unless the source has left the snapshot.
C9_UpdateEventuallyVisible ==
    \A t \in {1} : \A id \in 1..MaxCounter : \A u \in DaemonUpdates :
        Updated(t, id, u) ~> (Reflects(id, u) \/ IdAbsent(status, id))

\* A getter issued while the Update record waits in the channel returned the
\* old volume
C9_Witness ==
    /\ result[1].op = "get_volume"
    /\ result[1].ret.k = "ok"
    /\ \E i \in 1..Len(channel) :
          /\ channel[i].t = "obj"
          /\ "ID" \in DOMAIN channel[i].f
          /\ channel[i].f.ID.v = audio[1].v.id
          /\ channel[i].f.Volume.v # result[1].ret.v

\* This step is a step of thread t
StepOf(t) ==
    <<pc[t], result[t], didRead[t], cmd[t], name[t], audio[t]>>'
        # <<pc[t], result[t], didRead[t], cmd[t], name[t], audio[t]>>

\* C10: a step of the client leaves the channel as it is or, when it is the
\* write of build() or update(), adds one record at its end; a failed open and
\* the queries leave it as it is.
C10_ClientOnlyAppends ==
    [][\A t \in Threads :
          StepOf(t) =>
              \/ channel' = channel
              \/ /\ pc[t] \in {"write", "uwrite"}
                 /\ pc'[t] \notin {"write", "uwrite"}
                 /\ Len(channel') = Len(channel) + 1
                 /\ SubSeq(channel', 1, Len(channel)) = channel]_vars

\* Two records are in the channel, the second appended by update()
C10_Witness ==
    /\ Len(channel) = 2
    /\ result[1].op = "update"
    /\ result[1].ret.k = "ok"
    /\ channel[2] = UpdateRecord(audio[1].v.id, result[1].arg)
    /\ "Name" \in DOMAIN channel[1].f

-----------------------------------------------------------------------------

\* The Type a create command carries for the source type
TypeString(audio_type) ==
    CASE audio_type.tag = "Tone" -> "tone"
      [] audio_type.tag = "File" /\ audio_type.file = "Wav" -> "wav"
      [] audio_type.tag = "File" /\ audio_type.file = "Aiff" -> "aiff"
      [] audio_type.tag = "File" /\ audio_type.file = "Mp3" -> "mp3"

\* The WaveType a create command carries for the tone
WaveCode(tone) ==
    CASE tone = "Sine" -> 0
      [] tone = "Triangle" -> 1
      [] tone = "Saw" -> 2
      [] tone = "Square" -> 3

\* The Args of the record are those of the source type, and no others
ArgsFor(args, audio_type) ==
    /\ args.t = "obj"
    /\ IF audio_type.tag = "File"
       THEN /\ DOMAIN args.f = {"Path"}
            /\ HasField(args, "Path", JStr(audio_type.path))
       ELSE /\ DOMAIN args.f = {"WaveType", "Pitch", "Seconds"}
            /\ HasField(args, "WaveType", JNum(WaveCode(audio_type.tone)))
            /\ HasField(args, "Pitch", JNum(audio_type.pitch))
            /\ HasField(args, "Seconds", JNum(audio_type.duration))

\* The record is the create command of the builder self under the name n
IsCreateOf(record, n, self) ==
    /\ record.t = "obj"
    /\ DOMAIN record.f = {"Name", "Type", "Volume", "DoesLoop", "LoopCount", "Args"}
    /\ HasField(record, "Name", JStr(n))
    /\ HasField(record, "Type", JStr(TypeString(self.audio_type)))
    /\ HasField(record, "Volume", JNum(self.volume))
    /\ HasField(record, "DoesLoop", JBool(self.does_loop))
    /\ HasField(record, "LoopCount", JNum(self.loop_count))
    /\ ArgsFor(record.f.Args, self.audio_type)

\* No setter has changed a field of the builder since AudioBuilder::new
Untouched(self) == self = AudioBuilder_new(self.audio_type)

\* C11: the write of build() adds one record to the channel, with the fields
\* Name (the overridden name, else the generated one), Type ("wav", "aiff",
\* "mp3" or "tone"), Volume, DoesLoop, LoopCount and Args, where Args holds
\* Path alone for a file and WaveType (0..3), Pitch and Seconds alone for a
\* tone; a builder with no setter called sends Volume 1, DoesLoop false and
\* LoopCount -1.
C11_CreateCommandFields ==
    [][\A t \in Threads :
          (pc[t] = "write" /\ pc'[t] = "poll") =>
              LET self == result[t].arg
                  record == channel'[Len(channel')]
              IN  /\ Len(channel') = Len(channel) + 1
                  /\ IsCreateOf(record,
                                IF self.name.some THEN self.name.v
                                ELSE issued[Len(issued)],
                                self)
                  /\ Untouched(self) =>
                        /\ HasField(record, "Volume", JNum(1))
                        /\ HasField(record, "DoesLoop", JBool(FALSE))
                        /\ HasField(record, "LoopCount", JNum(-1))]_vars

\* The create command of an untouched Saw tone builder is the last record of
\* the channel
C11_Witness ==
    /\ pc[1] = "poll"
    /\ result[1].arg = AudioBuilder_new(Tone("Saw", 440, 2))
    /\ channel # <<>>
    /\ channel[Len(channel)].f.Args.f.WaveType.v = 2
    /\ channel[Len(channel)].f.Name.v = "rust_audio_" \o ToString(counter - 1)

-----------------------------------------------------------------------------

NotFoundByName(n) == Err([msg |-> <<"No audio source found with name {}.", n>>])

\* The record i of items is the first that has the value under the key
IsFirstWith(items, i, key, value) ==
    /\ HasField(items[i], key, value)
    /\ \A j \in 1..(i - 1) : ~HasField(items[j], key, value)

\* The lookup result ret is the first record of the Sources array of the file
\* with the value under the key, or the error notFound when there is none
FirstMatchOr(ret, file, key, value, notFound) ==
    LET items == SourcesIn(file) IN
    /\ \A i \in 1..Len(items) :
          IsFirstWith(items, i, key, value) => (ret.k = "ok" /\ ret.v = items[i])
    /\ (\A i \in 1..Len(items) : ~HasField(items[i], key, value)) => ret = notFound

\* C12: on a readable snapshot get_status_by_name (get_status_by_id) returns
\* the first record of Sources, in the order of the array, that has the name
\* (identity), and the not-found error when no record has it; build() with an
\* overridden name goes by the first record with that name: the Handle it
\* returns has the ID of that record, it aborts only when that record has no
\* ID to take, and when it has read the file and times out no record has the
\* name.
C12_LookupReturnsFirstMatch ==
    \A t \in Threads :
        /\ (result[t].op = "get_status_by_name" /\ status.kind = "json") =>
              FirstMatchOr(result[t].ret, status, "Name", JStr(result[t].arg),
                           NotFoundByName(result[t].arg))
        /\ (result[t].op = "get_status_by_id" /\ status.kind = "json") =>
              FirstMatchOr(result[t].ret, status, "ID", JNum(result[t].arg),
                           NotFoundById(result[t].arg))
        /\ (result[t].op = "build" /\ result[t].ret.k \in {"ok", "panic"}) =>
              \E i \in 1..Len(SourcesIn(status)) :
                  /\ IsFirstWith(SourcesIn(status), i, "Name",
                                 JStr(result[t].arg.name.v))
                  /\ IF result[t].ret.k = "ok"
                     THEN HasField(SourcesIn(status)[i], "ID",
                                   JNum(result[t].ret.v.id))
                     ELSE ~AsU64(Index(SourcesIn(status)[i], "ID")).some
        /\ (result[t].op = "build" /\ IsTimeout(result[t].ret) /\ didRead[t]) =>
              ~NameIn(status, result[t].arg.name.v)

\* Two records have the name "bgm"; the lookup returned the one with ID 2,
\* which comes first
C12_Witness ==
    /\ status = Json(Doc(TRUE, <<GoodSource(2, "bgm"), GoodSource(1, "bgm")>>))
    /\ result[1].op = "get_status_by_name"
    /\ result[1].arg = "bgm"
    /\ result[1].ret.k = "ok"
    /\ result[1].ret.v.f.ID.v = 2

-----------------------------------------------------------------------------

\* Timestamps of the form of TIME_FORMAT, each with its date, time of day and
\* nanoseconds
TimeTable ==
    [s \in {"2020-05-01T12:00:00.000000000Z", "2020-05-01T12:00:02.000000000Z",
            "2020-05-01T12:00:00.5Z", "2019-12-31T23:59:59.999999999Z"} |->
        CASE s = "2020-05-01T12:00:00.000000000Z" ->
                 [date |-> <<2020, 5, 1>>, time |-> <<12, 0, 0>>, nano |-> 0]
          [] s = "2020-05-01T12:00:02.000000000Z" ->
                 [date |-> <<2020, 5, 1>>, time |-> <<12, 0, 2>>, nano |-> 0]
          [] s = "2020-05-01T12:00:00.5Z" ->
                 [date |-> <<2020, 5, 1>>, time |-> <<12, 0, 0>>, nano |-> 5]
          [] s = "2019-12-31T23:59:59.999999999Z" ->
                 [date |-> <<2019, 12, 31>>, time |-> <<23, 59, 59>>,
                  nano |-> 999999999]]

\* The key of the snapshot that the query reads
KeyOf(g) ==
    CASE g = "get_name" -> "Name"
      [] g = "get_volume" -> "Volume"
      [] g = "get_duration" -> "Duration"
      [] g = "get_remaining" -> "Remaining"
      [] g = "is_paused" -> "Paused"
      [] g = "get_loop" -> "Loop"
      [] g = "get_end_time" -> "EndTime"
      [] g = "get_start_time" -> "StartTime"
      [] g = "is_running" -> "Running"
      [] g = "is_disabled" -> "Disabled"

\* The record holds under the key of g what the query g returned as v
HoldsAnswer(record, g, v) ==
    CASE g = "get_name" -> HasField(record, KeyOf(g), JStr(v))
      [] g \in {"is_paused", "is_running", "is_disabled"} ->
            HasField(record, KeyOf(g), JBool(v))
      [] g \in {"get_end_time", "get_start_time"} ->
            \E s \in DOMAIN TimeTable :
                HasField(record, KeyOf(g), JStr(s)) /\ TimeTable[s] = v
      [] OTHER -> HasField(record, KeyOf(g), JNum(v))

\* Thread t calls the query g in this step
Queries(t, g) ==
    /\ pc[t] = "idle"
    /\ result'[t].op = g
    /\ <<result[t], didRead[t]>>' # <<result[t], didRead[t]>>

\* The first record of the Sources array of the file with the identity id is
\* the given record
FirstWithId(file, id, record) ==
    \E i \in 1..Len(SourcesIn(file)) :
        /\ IsFirstWith(SourcesIn(file), i, "ID", JNum(id))
        /\ SourcesIn(file)[i] = record

\* C13: a getter, is_running() and is_disabled() answer from the status file
\* as it is when they are called: a returned value is the field of the record
\* with the Handle's identity (of the top-level object) in that file, a record
\* that is there is answered from, an identity that is not there is not found,
\* and a file that cannot be read gives the read error, whatever an earlier
\* call has read.
C13_QueriesReadCurrentSnapshot ==
    [][\A t \in Threads :
          /\ \A g \in SnapshotGetters :
                Queries(t, g) =>
                    LET ret == result'[t].ret
                        id == audio[t].v.id
                    IN  /\ didRead'[t]
                        /\ ret.k = "ok" =>
                              \E i \in 1..Len(SourcesIn(status)) :
                                  /\ IsFirstWith(SourcesIn(status), i, "ID", JNum(id))
                                  /\ HoldsAnswer(SourcesIn(status)[i], g, ret.v)
                        /\ \A n \in {"rust_audio_0", "bgm"} :
                              FirstWithId(status, id, GoodSource(id, n)) =>
                                  /\ ret.k = "ok"
                                  /\ HoldsAnswer(GoodSource(id, n), g, ret.v)
                        /\ (status.kind = "json" /\ IdAbsent(status, id)) =>
                              ret = NotFoundById(id)
                        /\ CannotBeRead(status) =>
                              IsError(ret, "Error in reading {}. ({})")
          /\ \A q \in GlobalQueries :
                Queries(t, q) =>
                    LET ret == result'[t].ret
                    IN  /\ didRead'[t]
                        /\ ret.k = "ok" =>
                              (status.kind = "json" /\ HoldsAnswer(status.doc, q, ret.v))
                        /\ \A b \in BOOLEAN :
                              (status.kind = "json"
                               /\ HasField(status.doc, KeyOf(q), JBool(b)))
                              => ret = Ok(b)
                        /\ CannotBeRead(status) =>
                              IsError(ret, "Error in reading {}. ({})")]_vars

\* The Handle returned for the source published as "rust_audio_0" with ID 1
\* reads the name "bgm" after the file was replaced by one where the first
\* record with ID 1 has that name
C13_Witness ==
    /\ audio[1].some
    /\ audio[1].v.id = 1
    /\ status = Json(Doc(TRUE, <<GoodSource(2, "bgm"), GoodSource(1, "bgm")>>))
    /\ result[1].op = "get_name"
    /\ result[1].ret.k = "ok"
    /\ result[1].ret.v = "bgm"

-----------------------------------------------------------------------------

\* In this step build() of thread t returns the I/O error of the template,
\* for the command file and with one message in it, whatever that message is,
\* and has neither read the status file nor made a Handle
FailsAtOnce(t, template) ==
    /\ pc'[t] = "idle"
    /\ IsError(result'[t].ret, template)
    /\ Len(result'[t].ret.e.msg) = 3
    /\ result'[t].ret.e.msg[2] = "/tmp/audio"
    /\ ~IsTimeout(result'[t].ret)
    /\ ~didRead'[t]
    /\ audio'[t] = audio[t]
    /\ status' = status

\* C14: when the open of the command file fails, or the write does not put the
\* whole command at its end, build() returns the opening or the writing error
\* in that step: without a read of the status file, without a Handle, and not
\* as the timeout error.
C14_IoErrorReturnedAtOnce ==
    [][\A t \in Threads :
          /\ (pc[t] = "open" /\ pc'[t] \notin {"open", "write"}) =>
                FailsAtOnce(t, "Error in opening {}. ({})")
          /\ (pc[t] = "write" /\ pc'[t] # "write"
                              /\ channel' # Append(channel, cmd[t])) =>
                FailsAtOnce(t, "Error in writing to {}. ({})")]_vars

\* The first build() has failed in the write, which left a part of the
\* command in the file; no Handle exists
C14_Witness ==
    /\ result[1].op = "build"
    /\ IsError(result[1].ret, "Error in writing to {}. ({})")
    /\ audio[1] = None
    /\ ~didRead[1]
    /\ channel = <<Truncated(Null)>>

-----------------------------------------------------------------------------

\* The channel is as it was, or the daemon has taken its oldest record
NothingWritten == channel' = channel \/ channel' = Tail(channel)

\* C15: a build() call writes its create command in one step, the one that
\* enters the loop, and before any read of the status file; while it opens,
\* while it polls and when it times out it writes nothing, so the command of
\* a build() that timed out stays in the channel until the daemon takes it.
C15_CommandWrittenOnceBeforePolling ==
    [][\A t \in Threads :
          /\ (pc[t] = "write" /\ pc'[t] = "poll") =>
                /\ channel' = Append(channel, cmd[t])
                /\ IsCreateOf(cmd[t], name[t], result[t].arg)
                /\ ~didRead[t] /\ ~didRead'[t]
          /\ pc'[t] = "poll" => pc[t] \in {"write", "poll"}
          /\ pc[t] \in {"open", "poll"} => NothingWritten
          /\ (pc[t] = "poll" /\ IsTimeout(result'[t].ret)) =>
                /\ channel' = channel
                /\ audio'[t] = audio[t]]_vars

\* build() has timed out and holds no Handle; its command is still in the
\* channel and the status file now shows a source of that name
C15_Witness ==
    /\ result[1].op = "build"
    /\ IsTimeout(result[1].ret)
    /\ audio[1] = None
    /\ counter = 1
    /\ channel = <<SerializedCreate("rust_audio_0", result[1].arg)>>
    /\ NameIn(status, "rust_audio_0")


-----------------------------------------------------------------------------

\* The Handle that build() of thread t returns in this step has the identity
\* of the one record published under the name of its command
BoundToOwnRecord(t) ==
    \E i \in 1..Len(SourcesIn(status)) :
        /\ HasField(SourcesIn(status)[i], "Name", JStr(name[t]))
        /\ HasField(SourcesIn(status)[i], "ID", JNum(result'[t].ret.v.id))
        /\ SourcesIn(status)[i] = NewSource(result'[t].ret.v.id, cmd[t])
        /\ \A j \in 1..Len(SourcesIn(status)) :
              j # i => /\ ~HasField(SourcesIn(status)[j], "Name", JStr(name[t]))
                       /\ ~HasField(SourcesIn(status)[j], "ID",
                                    JNum(result'[t].ret.v.id))

\* C16, for any two Handles: with generated names and a daemon whose identities are unique
\* within the snapshot, a Handle returned by build() is bound to the record of
\* its own command and its identity differs from that of every Handle returned
\* before, to this thread or to another.
C16_HandlesDifferAlways ==
    [][\A t \in Threads :
          BuildReturnsHandle(t) =>
              /\ BoundToOwnRecord(t)
              /\ \A u \in Threads :
                    audio[u].some => audio[u].v.id # result'[t].ret.v.id]_vars

\* The record that the Handle of thread u was read from is in the status file
StillPublished(u) ==
    /\ audio[u].some
    /\ \E i \in 1..Len(SourcesIn(status)) :
          /\ HasField(SourcesIn(status)[i], "Name", JStr(bound[u]))
          /\ HasField(SourcesIn(status)[i], "ID", JNum(audio[u].v.id))

\* C16: with generated names and a daemon whose identities are unique within
\* the snapshot, a Handle returned by build() is bound to the record of its own
\* command, the only one of that name, and its identity differs from that of
\* every other record of the snapshot it was read from; so it differs from
\* that of every Handle, of this thread or another, whose source is in that
\* snapshot, and two Handles whose sources are in the snapshot together never
\* have one identity.
C16_HandlesDifferWithinSnapshot ==
    [][/\ \A t \in Threads :
             BuildReturnsHandle(t) =>
                 /\ BoundToOwnRecord(t)
                 /\ \A u \in Threads :
                       StillPublished(u) => audio[u].v.id # result'[t].ret.v.id
       /\ \A t, u \in Threads :
             (t # u /\ StillPublished(t) /\ StillPublished(u))
             => audio[t].v.id # audio[u].v.id]_vars

\* Both threads hold a Handle, for two sources that are in the snapshot together
C16_Witness ==
    /\ StillPublished(1) /\ StillPublished(2)
    /\ audio[1].v.id # audio[2].v.id
    /\ result[1].ret.k = "ok" /\ result[2].ret.k = "ok"
    /\ Len(SourcesIn(status)) = 2
    /\ HasField(SourcesIn(status)[1], "ID", JNum(audio[2].v.id))
    /\ HasField(SourcesIn(status)[2], "ID", JNum(audio[1].v.id))

-----------------------------------------------------------------------------

\* C17: the identity and the type a thread holds change only when build()
\* returns it a new Handle, made of the ID read and the type of the builder;
\* getters, update() and changes of the status file leave them as they are,
\* the record that update() writes carries the held identity, and get_id() and
\* get_type() return the held values without a read of the status file,
\* whatever it holds.
C17_IdentityAndTypeFixed ==
    [][\A t \in Threads :
          /\ audio'[t] # audio[t] =>
                /\ BuildReturnsHandle(t)
                /\ audio'[t] = Some([id |-> result'[t].ret.v.id,
                                     audio_type |-> result[t].arg.audio_type])
          /\ Queries(t, "get_id") =>
                /\ result'[t].ret.k = "ok"
                /\ result'[t].ret.v = audio[t].v.id
                /\ ~didRead'[t]
          /\ Queries(t, "get_type") =>
                /\ result'[t].ret.k = "ok"
                /\ result'[t].ret.v = audio[t].v.audio_type
                /\ ~didRead'[t]
          /\ (pc[t] = "uwrite" /\ Len(channel') > Len(channel)
                               /\ result'[t].ret.k = "ok") =>
                HasField(channel'[Len(channel')], "ID", JNum(audio[t].v.id))]_vars

\* get_id() has returned the identity 1 of a Handle whose source is in the
\* status file no more
C17_Witness ==
    /\ audio[1].some
    /\ audio[1].v.id = 1
    /\ result[1].op = "get_id"
    /\ result[1].ret.k = "ok"
    /\ result[1].ret.v = 1
    /\ ~didRead[1]
    /\ status.kind = "json"
    /\ IdAbsent(status, 1)

-----------------------------------------------------------------------------

\* Thread t enters build() in this step
BuildStarts(t) == pc[t] = "idle" /\ pc'[t] = "open"

\* C18: the counter of generated names is 0 at the start and never goes down;
\* a build() without an overridden name adds one to it when it is called, and
\* nothing else changes it: not a build() with an overridden name, not the
\* later steps of a build(), failed or timed out, not a getter, is_running(),
\* is_disabled() or update().
C18_CounterAdvancesPerUnnamedBuild ==
    /\ counter = 0
    /\ [][/\ counter' >= counter
          /\ \A t \in Threads :
                BuildStarts(t) =>
                    counter' = IF result'[t].arg.name.some THEN counter
                               ELSE counter + 1
          /\ (\A t \in Threads : ~BuildStarts(t)) => counter' = counter]_vars

\* Two build() calls without an overridden name have been made; the second
\* has failed in the open, and the counter stands at 2
C18_Witness ==
    /\ counter = 2
    /\ issued = <<"rust_audio_0", "rust_audio_1">>
    /\ result[1].op = "build"
    /\ ~result[1].arg.name.some
    /\ IsError(result[1].ret, "Error in opening {}. ({})")

====
